---------------------------- MODULE Spec2Model ----------------------------
(***************************************************************************)
(* A model of lsfiles.py: list directory contents recursively by file      *)
(* modification time or size.                                              *)
(*                                                                         *)
(* Spec     one run of main(): argument parsing, get_filedb (os.walk and   *)
(*          two os.lstat calls per file), keys_sorted_by and the print     *)
(*          loop, interleaved with an external process that modifies or    *)
(*          unlinks files.                                                 *)
(* SpecHRS  human_readable_size applied to byte counts drawn from a        *)
(*          bounded set of inputs.                                         *)
(*                                                                         *)
(* Strings (paths, rendered sizes) are sequences of one-character strings. *)
(***************************************************************************)
EXTENDS Integers, Sequences, FiniteSets, TLC

VARIABLES
    pc,          \* position of main(): "start", "walk", "lstat_mtime",
                 \* "lstat_size", "sort", "print", "exit"
    exit_code,   \* -1 while running, 0 success, 1 uncaught exception, 2 argparse error
    argv,        \* the command line: [flags, directories]
    args,        \* the namespace returned by get_args()
    present,     \* file system: the non-directory entries that exist
    meta,        \* file system: lstat result (mtime, size) of each non-directory entry
    unreadable,  \* file system: directories that cannot be listed (no permission)
    history,     \* every (mtime, size) state each entry has been in (observer)
    env_steps,   \* steps the external process has taken
    todo,        \* get_filedb: directory arguments not yet walked
    stack,       \* os.walk: directories still to visit, each [path, top]
    dirpath,     \* os.walk: the directory whose filenames are being processed
    filenames,   \* os.walk: filenames of dirpath not yet processed
    mtime,       \* get_filedb: the local variable mtime (line 72)
    walked,      \* directories os.walk listed, each [path, top, node] (observer)
    skipped,     \* directories whose listing failed, each [path, top] (observer)
    filedb,      \* the dict, in insertion order: sequence of [key, mtime, fsize]
    sort_key,    \* main: the local variable sort_key ("" before it is set)
    sorted,      \* the part of keys_sorted_by's result not yet printed
    out,         \* lines printed to standard output
    raised,      \* the exception that ended the run ("" if none)
    numbytes,    \* SpecHRS: the argument of human_readable_size
    rendered     \* SpecHRS: its result (<<>> before the call)

vars == <<pc, exit_code, argv, args, present, meta, unreadable, history,
          env_steps, todo, stack, dirpath, filenames, mtime, walked, skipped,
          filedb, sort_key, sorted, out, raised, numbytes, rendered>>

mainVars == <<pc, exit_code, argv, args, present, meta, unreadable, history,
              env_steps, todo, stack, dirpath, filenames, mtime, walked,
              skipped, filedb, sort_key, sorted, out, raised>>

-----------------------------------------------------------------------------
(* Bounds of the model.                                                    *)

\* most directory arguments on the command line
MaxDirs == 2
\* most steps of the external process during one run
MaxEnvSteps == 1
\* most directory arguments of a run the external process acts in
MaxRaceDirs == 1
\* SpecHRS: byte counts 0..MaxSmall are all tried
MaxSmall == 30
\* SpecHRS: byte counts within Spread of each threshold and rounding boundary
Spread == 2

-----------------------------------------------------------------------------
(* Sequences and strings.                                                  *)

Range(s) == {s[i] : i \in 1..Len(s)}

Perms(S) == {s \in [1..Cardinality(S) -> S] : Range(s) = S}

SeqsUpTo(S, n) == UNION {[1..k -> S] : k \in 0..n}

IsPrefix(p, s) == Len(p) <= Len(s) /\ SubSeq(s, 1, Len(p)) = p

\* Unicode code point of the characters paths are made of
Ord(c) ==
    CASE c = "." -> 46 [] c = "/" -> 47
      [] c = "a" -> 97 [] c = "b" -> 98 [] c = "d" -> 100 [] c = "j" -> 106
      [] c = "k" -> 107 [] c = "l" -> 108 [] c = "s" -> 115 [] c = "x" -> 120

\* Python's str.__lt__: lexicographic by code point, a proper prefix is smaller
RECURSIVE StrLess(_, _)
StrLess(s, t) ==
    IF t = <<>> THEN FALSE
    ELSE IF s = <<>> THEN TRUE
    ELSE IF Head(s) # Head(t) THEN Ord(Head(s)) < Ord(Head(t))
    ELSE StrLess(Tail(s), Tail(t))

\* os.path.join(a, b) on POSIX, for a relative b
PathJoin(a, b) ==
    IF a = <<>> \/ a[Len(a)] = "/" THEN a \o b ELSE a \o <<"/">> \o b

-----------------------------------------------------------------------------
(* The file system the program runs on: the current directory holds the    *)
(* directory d and the symbolic link l -> d; d holds the regular file a,   *)
(* the symbolic link k -> a and the directory s; s holds the regular file  *)
(* b and the symbolic link j -> d.                                         *)

None == "NONE"

Kind(n) ==
    CASE n \in {"CWD", "D", "S"} -> "dir"
      [] n \in {"A", "B"} -> "file"
      [] n \in {"K", "J", "L"} -> "link"
      [] OTHER -> "none"

\* what a symbolic link points to
Target(n) ==
    CASE n = "K" -> "A" [] n = "J" -> "D" [] n = "L" -> "D" [] OTHER -> None

\* the directory entries: name -> node
Children(n) ==
    CASE n = "CWD" -> [c \in {"d", "l"} |-> IF c = "d" THEN "D" ELSE "L"]
      [] n = "D" -> [c \in {"a", "k", "s"} |->
                        CASE c = "a" -> "A" [] c = "k" -> "K" [] c = "s" -> "S"]
      [] n = "S" -> [c \in {"b", "j"} |-> IF c = "b" THEN "B" ELSE "J"]
      [] OTHER -> <<>>

\* the entries os.walk reports as filenames, whose metadata the program reads
Entries == {"A", "B", "K"}

\* the entries the external process modifies or unlinks
Mutable == {"A"}

MTimes == {1, 2}

Sizes == {500, 2500000}

Exists(n, pres) == n # None /\ Kind(n) # "none" /\ (n \in Entries => n \in pres)

\* a symbolic link resolved (a dangling one resolves to nothing)
Follow(n, pres) ==
    IF Kind(n) = "link"
    THEN (IF Exists(Target(n), pres) THEN Target(n) ELSE None)
    ELSE n

\* one step of path resolution: the entry named c of directory n
Lookup(n, c, pres, unr) ==
    IF n = None \/ Kind(n) # "dir" \/ n \in unr THEN None
    ELSE IF c \in {".", "/"} THEN n
    ELSE IF c \in DOMAIN Children(n) /\ Exists(Children(n)[c], pres)
         THEN Children(n)[c]
         ELSE None

\* path resolution from node cur: every symbolic link but the last is followed
RECURSIVE Resolve(_, _, _, _)
Resolve(cur, path, pres, unr) ==
    IF path = <<>> \/ cur = None THEN cur
    ELSE Resolve(Lookup(Follow(cur, pres), Head(path), pres, unr),
                 Tail(path), pres, unr)

\* os.lstat(path): the node itself, a symbolic link not followed
Lstat(path, pres, unr) == Resolve("CWD", path, pres, unr)

\* os.stat(path): symbolic links followed
Stat(path, pres, unr) == Follow(Lstat(path, pres, unr), pres)

\* os.path.islink(path)
IsLink(path, pres, unr) == Kind(Lstat(path, pres, unr)) = "link"

\* os.scandir(path) succeeds: path is a directory (through symbolic links)
\* that may be listed
CanScan(path, pres, unr) ==
    LET n == Stat(path, pres, unr) IN n # None /\ Kind(n) = "dir" /\ n \notin unr

\* the names os.scandir(path) yields
Listing(path, pres, unr) ==
    LET n == Stat(path, pres, unr)
    IN {c \in DOMAIN Children(n) : Exists(Children(n)[c], pres)}

\* entry.is_dir() in os.walk: symbolic links followed
EntryIsDir(path, c, pres, unr) ==
    Kind(Stat(PathJoin(path, <<c>>), pres, unr)) = "dir"

WalkDirs(path, pres, unr) ==
    {c \in Listing(path, pres, unr) : EntryIsDir(path, c, pres, unr)}

WalkNonDirs(path, pres, unr) ==
    {c \in Listing(path, pres, unr) : ~EntryIsDir(path, c, pres, unr)}

\* the directory arguments tried
DirArgs == {<<"d">>, <<".", "/", "d">>, <<"d", "/", "s">>, <<"x">>, <<"l">>}

Flags == {"--human", "--bymtime", "--bysize"}

-----------------------------------------------------------------------------
(* Numbers and their decimal strings.                                      *)

Digits == <<"0", "1", "2", "3", "4", "5", "6", "7", "8", "9">>

\* str(n) for an int n >= 0
RECURSIVE Str(_)
Str(v) ==
    IF v < 10 THEN <<Digits[v + 1]>> ELSE Str(v \div 10) \o <<Digits[(v % 10) + 1]>>

DigitValue(c) == CHOOSE d \in 0..9 : Digits[d + 1] = c

\* int(s) for a string of decimal digits
RECURSIVE ParseInt(_)
ParseInt(s) ==
    IF s = <<>> THEN 0
    ELSE 10 * ParseInt(SubSeq(s, 1, Len(s) - 1)) + DigitValue(s[Len(s)])

RECURSIVE Pow2(_)
Pow2(s) == IF s = 0 THEN 1 ELSE 2 * Pow2(s - 1)

RECURSIVE Log2Floor(_)
Log2Floor(n) == IF n < 2 THEN 0 ELSE 1 + Log2Floor(n \div 2)

\* a * b mod m without an intermediate product
RECURSIVE MulMod(_, _, _)
MulMod(a, b, m) ==
    IF b = 0 THEN 0
    ELSE ((IF b % 2 = 1 THEN a % m ELSE 0) + 2 * MulMod(a, b \div 2, m)) % m

\* x * 2^s mod m
RECURSIVE ShiftMod(_, _, _)
ShiftMod(x, s, m) ==
    IF s = 0 THEN x % m
    ELSE IF s >= 10 /\ x < 2000000 THEN ShiftMod((1024 * x) % m, s - 10, m)
    ELSE ShiftMod((2 * x) % m, s - 1, m)

(***************************************************************************)
(* A Python int is unbounded: a byte count is held as [hi, lo], the number *)
(* hi * Limb + lo with 0 <= lo < Limb.                                     *)
(***************************************************************************)
Limb == 10000000

Big(n) == [hi |-> n \div Limb, lo |-> n % Limb]

BigLess(a, b) == a.hi < b.hi \/ (a.hi = b.hi /\ a.lo < b.lo)

\* 2^53: every int below it is a float
TwoTo53 == [hi |-> 900719925, lo |-> 4740992]

\* 2^54: the byte counts modelled lie below it
TwoTo54 == [hi |-> 1801439850, lo |-> 9481984]

(***************************************************************************)
(* float(n), the conversion the division numbytes/1000.0 begins with:      *)
(* exact below 2^53; from 2^53 to 2^54 floats are the even integers, and   *)
(* an odd n goes to the neighbour with the even mantissa (a multiple of 4; *)
(* Limb is one, so n mod 4 = lo mod 4).                                    *)
(***************************************************************************)
ToFloat(n) ==
    IF BigLess(n, TwoTo53) \/ n.lo % 2 = 0 THEN n
    ELSE IF n.lo % 4 = 1 THEN [hi |-> n.hi, lo |-> n.lo - 1]
    ELSE IF n.lo + 1 = Limb THEN [hi |-> n.hi + 1, lo |-> 0]
    ELSE [hi |-> n.hi, lo |-> n.lo + 1]

(***************************************************************************)
(* f"{n/10^k:8.2f}" for a float n that is an integer: the quotient is the  *)
(* float nearest to n/10^k, and the format rounds that float's exact value *)
(* to two decimals, ties to even.  With g = 10^k/100, n = q*g + r: the     *)
(* result is q or q+1 hundredths as the float lies below or above          *)
(* (q + 1/2)/100.  The float is m * 2^-s * 2^-k for the integer m nearest  *)
(* to n * 2^s / 5^k, where s = 52 - e - k and 2^e <= n/10^k < 2^(e+1);     *)
(* so with t = n * 2^s mod 5^k its distance from n/10^k, in units of       *)
(* 10^-k * 2^-s, is -t (t below 5^k/2) or 5^k - t.                         *)
(***************************************************************************)
\* e: the binary exponent of n / unit, for n > 0
RECURSIVE NegExponent(_, _)
NegExponent(x, unit) == IF x >= unit THEN 0 ELSE 1 + NegExponent(2 * x, unit)

Exponent(n, k) ==
    LET unit == IF k = 3 THEN 1000 ELSE IF k = 6 THEN 1000000 ELSE 1000000000
        quot == IF k = 9 THEN n.hi \div 100 ELSE (n.hi * Limb + n.lo) \div unit
    IN IF quot >= 1 THEN Log2Floor(quot)
       ELSE 0 - NegExponent(n.hi * Limb + n.lo, unit)

\* the sign (-1, 0, 1) of delta * 2^s + err, for |err| < 2^20
SignOf(delta, s, err) ==
    LET Cmp(d, b) ==   \* the sign of d * 2^s - b, for d > 0, 0 <= b < 2^20
            IF s > 20 \/ Pow2(s) > b \div d THEN 1
            ELSE IF Pow2(s) = b \div d /\ b % d = 0 THEN 0 ELSE -1
    IN CASE delta = 0 -> (IF err > 0 THEN 1 ELSE IF err < 0 THEN -1 ELSE 0)
         [] delta > 0 -> (IF err >= 0 THEN 1 ELSE Cmp(delta, 0 - err))
         [] delta < 0 -> (IF err <= 0 THEN -1 ELSE 0 - Cmp(0 - delta, err))

\* changed: the hundredths truncated, not rounded
Hundredths_truncated(n, k) ==
    IF k = 9 THEN n.hi
    ELSE (n.hi * Limb + n.lo) \div (IF k = 3 THEN 10 ELSE 10000)

\* the hundredths f"{n/10^k:.2f}" shows
Hundredths(n, k) ==
    LET five == IF k = 3 THEN 125 ELSE IF k = 6 THEN 15625 ELSE 1953125
        gran == IF k = 3 THEN 10 ELSE IF k = 6 THEN 10000 ELSE Limb
        quo == IF k = 9 THEN n.hi ELSE (n.hi * Limb + n.lo) \div gran
        rem == IF k = 9 THEN n.lo ELSE (n.hi * Limb + n.lo) % gran
        shift == 52 - Exponent(n, k) - k
        resid == ShiftMod((MulMod(n.hi % five, Limb % five, five) + n.lo) % five,
                          shift, five)
        dist == IF 2 * resid < five THEN 0 - resid ELSE five - resid
        side == SignOf(rem - (gran \div 2), shift, dist)
    IN IF n.hi = 0 /\ n.lo = 0 THEN 0
       ELSE IF side > 0 \/ (side = 0 /\ quo % 2 = 1) THEN quo + 1 ELSE quo

\* the format spec 8.2f: two decimals, right-justified in 8 characters
Format8_2f(h) ==
    LET body == Str(h \div 100) \o <<".">> \o <<Digits[((h \div 10) % 10) + 1]>>
                    \o <<Digits[(h % 10) + 1]>>
        pad == <<" ", " ", " ", " ", " ", " ", " ", " ">>
    IN IF Len(body) >= 8 THEN body ELSE SubSeq(pad, 1, 8 - Len(body)) \o body

human_readable_size(nb) ==
    IF nb.hi = 0 /\ nb.lo < 1000000
    THEN Format8_2f(Hundredths(ToFloat(nb), 3)) \o <<"K", "B">>
    ELSE IF nb.hi < 100
    THEN Format8_2f(Hundredths(ToFloat(nb), 6)) \o <<"M", "B">>
    ELSE Format8_2f(Hundredths(ToFloat(nb), 9)) \o <<"G", "B">>

-----------------------------------------------------------------------------
(* The dict filedb and keys_sorted_by.                                     *)

Keys(db) == {db[i].key : i \in 1..Len(db)}

\* dictionary[key]
Get(db, key) == db[CHOOSE i \in 1..Len(db) : db[i].key = key]

\* changed: a list of records, a path met again is added again
DictSet_append(db, key, mt, fs) ==
    Append(db, [key |-> key, mtime |-> mt, fsize |-> fs])

\* dictionary[key] = (mtime, fsize): a key already held keeps its position
DictSet(db, key, mt, fs) ==
    LET item == [key |-> key, mtime |-> mt, fsize |-> fs]
    IN IF key \in Keys(db)
       THEN [i \in 1..Len(db) |-> IF db[i].key = key THEN item ELSE db[i]]
       ELSE Append(db, item)

\* changed: the values compared alone, as sort(key=itemgetter(0)) would
TupleLess_valueonly(a, b) == a[1] < b[1]

\* (v1, k1) < (v2, k2) on Python tuples of an int and a str
TupleLess(a, b) == a[1] < b[1] \/ (a[1] = b[1] /\ StrLess(a[2], b[2]))

\* list.sort(reverse=...): a stable sort, equal elements keep their order
RECURSIVE SortInto(_, _, _)
SortInto(done, rest, reverse) ==
    IF rest = <<>> THEN done
    ELSE LET x == Head(rest)
             Before(y) == IF reverse THEN ~TupleLess(y, x) ELSE ~TupleLess(x, y)
             n == Cardinality({i \in 1..Len(done) : Before(done[i])})
         IN SortInto(SubSeq(done, 1, n) \o <<x>> \o SubSeq(done, n + 1, Len(done)),
                     Tail(rest), reverse)

ListSort(list, reverse) == SortInto(<<>>, list, reverse)

\* keys_sorted_by(value, dictionary, reverse): the keys, or ValueError raised
keys_sorted_by(value, dictionary, reverse) ==
    IF value = "mtime"
    THEN LET result == [i \in 1..Len(dictionary) |->
                           <<dictionary[i].mtime, dictionary[i].key>>]
             s == ListSort(result, reverse)
         IN [raised |-> "", keys |-> [i \in 1..Len(s) |-> s[i][2]]]
    ELSE IF value = "fsize"
    THEN LET result == [i \in 1..Len(dictionary) |->
                           <<dictionary[i].fsize, dictionary[i].key>>]
             s == ListSort(result, reverse)
         IN [raised |-> "", keys |-> [i \in 1..Len(s) |-> s[i][2]]]
    ELSE [raised |-> "ValueError", keys |-> <<>>]

-----------------------------------------------------------------------------
(* main().                                                                 *)

NoArgs == [directories |-> <<>>, human |-> FALSE, bymtime |-> TRUE, bysize |-> FALSE]

\* argparse rejects the command line: no directory (nargs='+'), or both
\* options of the mutually exclusive group
Rejected(av) ==
    av.directories = <<>> \/ {"--bymtime", "--bysize"} \subseteq av.flags

\* the namespace parse_args() returns; bymtime is store_true with default=True
ParseArgs(av) ==
    [directories |-> av.directories,
     human       |-> "--human" \in av.flags,
     bymtime     |-> TRUE,
     bysize      |-> "--bysize" \in av.flags]

get_args ==
    /\ pc = "start"
    /\ IF Rejected(argv)
       THEN /\ pc' = "exit"
            /\ exit_code' = 2
            /\ raised' = "SystemExit"
            /\ UNCHANGED <<args, todo>>
       ELSE /\ args' = ParseArgs(argv)
            /\ todo' = argv.directories
            /\ pc' = "walk"
            /\ UNCHANGED <<exit_code, raised>>
    /\ UNCHANGED <<argv, present, meta, unreadable, history, env_steps, stack,
                   dirpath, filenames, mtime, walked, skipped, filedb, sort_key,
                   sorted, out, numbytes, rendered>>

\* for directory in directories: os.walk(directory) begins
WalkTop ==
    /\ pc = "walk" /\ stack = <<>> /\ todo # <<>>
    /\ stack' = <<[path |-> Head(todo), top |-> TRUE]>>
    /\ todo' = Tail(todo)
    /\ UNCHANGED <<pc, exit_code, argv, args, present, meta, unreadable, history,
                   env_steps, dirpath, filenames, mtime, walked, skipped, filedb,
                   sort_key, sorted, out, raised, numbytes, rendered>>

\* changed: os.walk(directory, followlinks=True)
WalkSkipsLink_followlinks(item, pres, unr) == FALSE

\* os.walk (followlinks=False) does not walk into a subdirectory that is a
\* symbolic link; the directory it was called on is not tested
WalkSkipsLink(item, pres, unr) == ~item.top /\ IsLink(item.path, pres, unr)

WalkLink ==
    /\ pc = "walk" /\ stack # <<>>
    /\ WalkSkipsLink(Head(stack), present, unreadable)
    /\ stack' = Tail(stack)
    /\ UNCHANGED <<pc, exit_code, argv, args, present, meta, unreadable, history,
                   env_steps, todo, dirpath, filenames, mtime, walked, skipped,
                   filedb, sort_key, sorted, out, raised, numbytes, rendered>>

\* os.scandir fails: os.walk (onerror=None) ignores the error and yields
\* nothing for this directory
WalkError ==
    /\ pc = "walk" /\ stack # <<>>
    /\ ~WalkSkipsLink(Head(stack), present, unreadable)
    /\ ~CanScan(Head(stack).path, present, unreadable)
    /\ stack' = Tail(stack)
    /\ skipped' = skipped \cup {Head(stack)}
    /\ UNCHANGED <<pc, exit_code, argv, args, present, meta, unreadable, history,
                   env_steps, todo, dirpath, filenames, mtime, walked, filedb,
                   sort_key, sorted, out, raised, numbytes, rendered>>

\* os.walk lists a directory and yields (dirpath, dirnames, filenames); the
\* order of a listing is the file system's
WalkYield ==
    /\ pc = "walk" /\ stack # <<>>
    /\ ~WalkSkipsLink(Head(stack), present, unreadable)
    /\ CanScan(Head(stack).path, present, unreadable)
    /\ LET top == Head(stack).path
       IN \E ds \in Perms(WalkDirs(top, present, unreadable)),
             fs \in Perms(WalkNonDirs(top, present, unreadable)) :
            /\ stack' = [i \in 1..Len(ds) |->
                            [path |-> PathJoin(top, <<ds[i]>>), top |-> FALSE]]
                        \o Tail(stack)
            /\ dirpath' = top
            /\ filenames' = fs
            /\ walked' = walked \cup
                   {[path |-> top, top |-> Head(stack).top,
                     link |-> IsLink(top, present, unreadable)]}
            /\ pc' = IF fs = <<>> THEN "walk" ELSE "lstat_mtime"
    /\ UNCHANGED <<exit_code, argv, args, present, meta, unreadable, history,
                   env_steps, todo, mtime, skipped, filedb, sort_key, sorted, out,
                   raised, numbytes, rendered>>

\* the metadata query of lines 72 and 73: os.lstat, the entry itself
FileStat(path, pres, unr) == Lstat(path, pres, unr)

\* line 72: mtime = os.lstat(filepath)[stat.ST_MTIME]
LstatMtime ==
    /\ pc = "lstat_mtime"
    /\ LET filepath == PathJoin(dirpath, <<Head(filenames)>>)
           n == FileStat(filepath, present, unreadable)
       IN IF n = None
          THEN /\ pc' = "exit" /\ exit_code' = 1 /\ raised' = "FileNotFoundError"
               /\ UNCHANGED mtime
          ELSE /\ mtime' = meta[n].mtime
               /\ pc' = "lstat_size"
               /\ UNCHANGED <<exit_code, raised>>
    /\ UNCHANGED <<argv, args, present, meta, unreadable, history, env_steps, todo,
                   stack, dirpath, filenames, walked, skipped, filedb, sort_key,
                   sorted, out, numbytes, rendered>>

\* changed: each record is printed as soon as it is stored
LstatSize_streaming ==
    /\ pc = "lstat_size"
    /\ LET filepath == PathJoin(dirpath, <<Head(filenames)>>)
           n == FileStat(filepath, present, unreadable)
       IN IF n = None
          THEN /\ pc' = "exit" /\ exit_code' = 1 /\ raised' = "FileNotFoundError"
               /\ UNCHANGED <<filedb, filenames, out>>
          ELSE /\ filedb' = DictSet(filedb, filepath, mtime, meta[n].size)
               /\ filenames' = Tail(filenames)
               /\ out' = Append(out,
                      [time_str |-> [format |-> "isoformat", timestamp |-> mtime],
                       size_str |-> Str(meta[n].size), filename |-> filepath])
               /\ pc' = IF Tail(filenames) = <<>> THEN "walk" ELSE "lstat_mtime"
               /\ UNCHANGED <<exit_code, raised>>
    /\ UNCHANGED <<argv, args, present, meta, unreadable, history, env_steps, todo,
                   stack, dirpath, mtime, walked, skipped, sort_key, sorted,
                   numbytes, rendered>>

\* lines 73-74: fsize = os.lstat(filepath)[stat.ST_SIZE]; filedb[filepath] = ...
LstatSize ==
    /\ pc = "lstat_size"
    /\ LET filepath == PathJoin(dirpath, <<Head(filenames)>>)
           n == FileStat(filepath, present, unreadable)
       IN IF n = None
          THEN /\ pc' = "exit" /\ exit_code' = 1 /\ raised' = "FileNotFoundError"
               /\ UNCHANGED <<filedb, filenames>>
          ELSE /\ filedb' = DictSet(filedb, filepath, mtime, meta[n].size)
               /\ filenames' = Tail(filenames)
               /\ pc' = IF Tail(filenames) = <<>> THEN "walk" ELSE "lstat_mtime"
               /\ UNCHANGED <<exit_code, raised>>
    /\ UNCHANGED <<argv, args, present, meta, unreadable, history, env_steps, todo,
                   stack, dirpath, mtime, walked, skipped, sort_key, sorted, out,
                   numbytes, rendered>>

\* line 76: every directory is walked, get_filedb returns
get_filedb_return ==
    /\ pc = "walk" /\ stack = <<>> /\ todo = <<>>
    /\ pc' = "sort"
    /\ UNCHANGED <<exit_code, argv, args, present, meta, unreadable, history,
                   env_steps, todo, stack, dirpath, filenames, mtime, walked,
                   skipped, filedb, sort_key, sorted, out, raised, numbytes,
                   rendered>>

\* changed: the key chosen by args.bymtime, which is always True
SortKeyOf_bymtime(a) == IF a.bymtime THEN "mtime" ELSE "fsize"

\* lines 84-87
SortKeyOf(a) == IF a.bysize THEN "fsize" ELSE "mtime"

\* changed: the keys sorted in increasing order (reverse=True left out)
MainSortedKeys_ascending(key, db) == keys_sorted_by(key, db, FALSE)

\* line 89: keys_sorted_by(sort_key, filedb, reverse=True)
MainSortedKeys(key, db) == keys_sorted_by(key, db, TRUE)

\* lines 84-89: the sort key is chosen and the keys are sorted
SortKeys ==
    /\ pc = "sort"
    /\ sort_key' = SortKeyOf(args)
    /\ LET r == MainSortedKeys(sort_key', filedb)
       IN IF r.raised # ""
          THEN /\ pc' = "exit" /\ exit_code' = 1 /\ raised' = r.raised
               /\ UNCHANGED sorted
          ELSE /\ sorted' = r.keys
               /\ pc' = "print"
               /\ UNCHANGED <<exit_code, raised>>
    /\ UNCHANGED <<argv, args, present, meta, unreadable, history, env_steps, todo,
                   stack, dirpath, filenames, mtime, walked, skipped, filedb, out,
                   numbytes, rendered>>

\* lines 92-97; time.ctime and datetime.isoformat are kept as the name of
\* the format and the timestamp formatted
Line(a, filename, db) ==
    LET e == Get(db, filename)
    IN [time_str |-> [format |-> IF a.human THEN "ctime" ELSE "isoformat",
                      timestamp |-> e.mtime],
        size_str |-> IF a.human THEN human_readable_size(Big(e.fsize))
                     ELSE Str(e.fsize),
        filename |-> filename]

\* lines 89-99: one iteration of the print loop
PrintLine ==
    /\ pc = "print" /\ sorted # <<>>
    /\ out' = Append(out, Line(args, Head(sorted), filedb))
    /\ sorted' = Tail(sorted)
    /\ UNCHANGED <<pc, exit_code, argv, args, present, meta, unreadable, history,
                   env_steps, todo, stack, dirpath, filenames, mtime, walked,
                   skipped, filedb, sort_key, raised, numbytes, rendered>>

\* the loop is over, main returns
MainReturn ==
    /\ pc = "print" /\ sorted = <<>>
    /\ pc' = "exit" /\ exit_code' = 0
    /\ UNCHANGED <<argv, args, present, meta, unreadable, history, env_steps, todo,
                   stack, dirpath, filenames, mtime, walked, skipped, filedb,
                   sort_key, sorted, out, raised, numbytes, rendered>>

-----------------------------------------------------------------------------
(* The external process.  It matters while get_filedb reads the file       *)
(* system; it is explored in the runs with at most MaxRaceDirs directory   *)
(* arguments.                                                              *)

EnvMayAct ==
    /\ pc \in {"walk", "lstat_mtime", "lstat_size"}
    /\ env_steps < MaxEnvSteps
    /\ Len(argv.directories) <= MaxRaceDirs

\* a write to file n: its size and modification time both change
EnvWrite(n) ==
    /\ EnvMayAct
    /\ n \in present
    /\ \E mt \in MTimes \ {meta[n].mtime}, sz \in Sizes \ {meta[n].size} :
         /\ meta' = [meta EXCEPT ![n] = [mtime |-> mt, size |-> sz]]
         /\ history' = [history EXCEPT ![n] = @ \cup {<<mt, sz>>}]
    /\ env_steps' = env_steps + 1
    /\ UNCHANGED <<pc, exit_code, argv, args, present, unreadable, todo, stack,
                   dirpath, filenames, mtime, walked, skipped, filedb, sort_key,
                   sorted, out, raised, numbytes, rendered>>

\* file n is removed
EnvUnlink(n) ==
    /\ EnvMayAct
    /\ n \in present
    /\ present' = present \ {n}
    /\ env_steps' = env_steps + 1
    /\ UNCHANGED <<pc, exit_code, argv, args, meta, unreadable, history, todo,
                   stack, dirpath, filenames, mtime, walked, skipped, filedb,
                   sort_key, sorted, out, raised, numbytes, rendered>>

-----------------------------------------------------------------------------
(* The run of the program.                                                 *)

InitMeta ==
    [n \in Entries |->
        CASE n = "A" -> [mtime |-> 1, size |-> 500]
          [] n = "B" -> [mtime |-> 1, size |-> 2500000]
          [] n = "K" -> [mtime |-> 2, size |-> 500]]

Init ==
    /\ pc = "start" /\ exit_code = -1 /\ raised = ""
    /\ argv \in [flags : SUBSET Flags, directories : SeqsUpTo(DirArgs, MaxDirs)]
    /\ args = NoArgs
    /\ present = Entries
    /\ meta = InitMeta
    /\ unreadable \in {{}, {"S"}}
    /\ history = [n \in Entries |-> {<<InitMeta[n].mtime, InitMeta[n].size>>}]
    /\ env_steps = 0
    /\ todo = <<>> /\ stack = <<>> /\ dirpath = <<>> /\ filenames = <<>>
    /\ mtime = 0
    /\ walked = {} /\ skipped = {}
    /\ filedb = <<>> /\ sort_key = "" /\ sorted = <<>> /\ out = <<>>
    /\ numbytes = Big(0) /\ rendered = <<>>

Next ==
    \/ get_args
    \/ WalkTop
    \/ WalkLink
    \/ WalkError
    \/ WalkYield
    \/ LstatMtime
    \/ LstatSize
    \/ get_filedb_return
    \/ SortKeys
    \/ PrintLine
    \/ MainReturn
    \/ \E n \in Mutable : EnvWrite(n)
    \/ \E n \in Mutable : EnvUnlink(n)

Spec == Init /\ [][Next]_vars

-----------------------------------------------------------------------------
(* human_readable_size on its own.                                         *)

Near(c) == {Big(c + d) : d \in (0 - Spread)..Spread}

\* byte counts around the rounding boundary hi.005 GB
NearHalf(hi) == {[hi |-> hi, lo |-> (Limb \div 2) + d] : d \in (0 - Spread)..Spread}

\* the byte counts tried: the small ones, those around the examples, the
\* unit thresholds and rounding boundaries, around 2^53, and around
\* rounding boundaries on both sides of 2^53
Samples ==
    {Big(n) : n \in 0..MaxSmall}
    \cup Near(125) \cup Near(500) \cup Near(2500000)
    \cup Near(999995) \cup Near(1000000) \cup Near(1005000)
    \cup Near(999995000) \cup Near(1000000000) \cup Near(1005000000)
    \cup {[hi |-> TwoTo53.hi, lo |-> TwoTo53.lo + d] : d \in (0 - Spread)..Spread}
    \cup NearHalf(838860800) \cup NearHalf(900719924) \cup NearHalf(900719925)
    \cup NearHalf(1677721600)

InitHRS ==
    /\ pc = "start" /\ exit_code = -1 /\ raised = ""
    /\ argv = [flags |-> {}, directories |-> <<>>]
    /\ args = NoArgs
    /\ present = Entries /\ meta = InitMeta /\ unreadable = {}
    /\ history = [n \in Entries |-> {}]
    /\ env_steps = 0
    /\ todo = <<>> /\ stack = <<>> /\ dirpath = <<>> /\ filenames = <<>>
    /\ mtime = 0
    /\ walked = {} /\ skipped = {}
    /\ filedb = <<>> /\ sort_key = "" /\ sorted = <<>> /\ out = <<>>
    /\ numbytes \in {n \in Samples : BigLess(n, TwoTo54)}
    /\ rendered = <<>>

CallHRS ==
    /\ rendered = <<>>
    /\ rendered' = human_readable_size(numbytes)
    /\ UNCHANGED <<mainVars, numbytes>>

NextHRS == CallHRS

SpecHRS == InitHRS /\ [][NextHRS]_vars

-----------------------------------------------------------------------------
(* Properties.                                                             *)

Both == {"--bymtime", "--bysize"}

BySize == "--bysize" \in argv.flags

Succeeded == pc = "exit" /\ exit_code = 0

\* the value of the chosen key in the record of a path
KeyOf(path) ==
    IF BySize THEN Get(filedb, path).fsize ELSE Get(filedb, path).mtime

\* the paths printed, in order
Printed == [i \in 1..Len(out) |-> out[i].filename]

\* C1: the printed lines are in non-increasing order of the chosen key: the
\* modification time by default, the size with --bysize.
C1_OutputNonIncreasing ==
    \A i \in 1..(Len(out) - 1) :
        /\ KeyOf(out[i].filename) >= KeyOf(out[i + 1].filename)
        /\ ~BySize => out[i].time_str.timestamp >= out[i + 1].time_str.timestamp
        /\ (BySize /\ ~args.human) =>
               ParseInt(out[i].size_str) >= ParseInt(out[i + 1].size_str)

C1_Witness ==
    /\ Succeeded /\ BySize /\ Len(out) >= 3
    /\ KeyOf(out[1].filename) > KeyOf(out[Len(out)].filename)

\* what os.walk finds under directory p, as the set of constructed paths
RECURSIVE Under(_, _, _)
Under(p, pres, unr) ==
    {PathJoin(p, <<c>>) : c \in WalkNonDirs(p, pres, unr)}
    \cup UNION {Under(PathJoin(p, <<c>>), pres, unr) :
                  c \in {x \in WalkDirs(p, pres, unr) :
                           /\ ~IsLink(PathJoin(p, <<x>>), pres, unr)
                           /\ CanScan(PathJoin(p, <<x>>), pres, unr)}}

\* the constructed paths of all the directory arguments
Discoverable(dirs, pres, unr) ==
    UNION {Under(dirs[i], pres, unr) :
             i \in {j \in 1..Len(dirs) : CanScan(dirs[j], pres, unr)}}

\* the lines that show file system entry n
LinesOf(n) == {i \in 1..Len(out) : Lstat(out[i].filename, Entries, {}) = n}

\* C2 as stated: every regular file reachable by traversal is printed exactly
\* once, whatever the directory arguments (repeated, nested, or the same
\* directory under two path strings), no path outside them is printed, and
\* there are as many lines as distinct paths discovered.
C2_EachFileOnce ==
    Succeeded =>
        /\ \A p \in Discoverable(argv.directories, present, unreadable) :
              Kind(Lstat(p, present, unreadable)) = "file" =>
                  Cardinality(LinesOf(Lstat(p, present, unreadable))) = 1
        /\ \A i \in 1..Len(out) :
              \E j \in 1..Len(argv.directories) :
                  IsPrefix(argv.directories[j], out[i].filename)
        /\ Len(out) = Cardinality(Keys(filedb))

\* C2 amended: every constructed path (directory argument joined with the
\* walk's relative path) is printed exactly once, so a file reached under two
\* path strings is printed once per string; every printed path begins with a
\* directory argument; there are as many lines as distinct constructed paths.
C2_EachPathOnce ==
    Succeeded =>
        /\ \A i, j \in 1..Len(out) : out[i].filename = out[j].filename => i = j
        /\ Range(Printed) = Keys(filedb)
        /\ Len(out) = Cardinality(Keys(filedb))
        /\ Discoverable(argv.directories, present, unreadable) \subseteq Range(Printed)
        /\ Range(Printed) \subseteq Discoverable(argv.directories, Entries, unreadable)
        /\ \A i \in 1..Len(out) :
              \E j \in 1..Len(argv.directories) :
                  IsPrefix(argv.directories[j], out[i].filename)

C2_Witness ==
    /\ Succeeded
    /\ argv.directories = <<<<"d">>, <<".", "/", "d">>>>
    /\ Cardinality(LinesOf("A")) = 2
    /\ Len(out) = 6

\* C3: a directory argument that does not exist or cannot be traversed makes
\* the run end with a non-zero exit code and no output line.
C3_MissingDirectoryFails ==
    (pc = "exit" /\ \E i \in 1..Len(argv.directories) :
                        ~CanScan(argv.directories[i], present, unreadable))
        => (exit_code # 0 /\ out = <<>>)

\* C4: the (mtime, size) pair recorded for a file is the pair the file had at
\* one single instant, whatever an external process does during collection.
C4_AtomicSnapshot ==
    \A i \in 1..Len(filedb) :
        <<filedb[i].mtime, filedb[i].fsize>>
            \in history[Lstat(filedb[i].key, Entries, {})]

\* C5: no line is printed before the traversal of all directories has
\* completed, and a failure raised during traversal leaves no output line.
C5_NoOutputBeforeCollected ==
    /\ out # <<>> =>
          (pc \in {"print", "exit"} /\ todo = <<>> /\ stack = <<>> /\ filenames = <<>>)
    /\ raised = "FileNotFoundError" => out = <<>>

C5_Witness == raised = "FileNotFoundError" /\ filedb # <<>> /\ exit_code = 1

\* C7: the run never succeeds after passing over a nested directory it could
\* not list: the error aborts the run.
C7_UnreadableAborts ==
    Succeeded => \A d \in skipped : d.top

\* C8 as stated: the collector never descends through a symbolic link to a
\* directory, and a symbolic link recorded as a file entry has the link's own
\* modification time and size.
C8_NeverFollowsLinks ==
    /\ \A w \in walked : ~w.link
    /\ \A i \in 1..Len(filedb) :
          LET n == Lstat(filedb[i].key, Entries, {})
          IN Kind(n) = "link" =>
                 (filedb[i].mtime = meta[n].mtime /\ filedb[i].fsize = meta[n].size)

\* C8 amended: the collector never descends through a symbolic link to a
\* directory that it meets below a directory argument (a directory argument
\* that is itself a symbolic link is traversed), and a symbolic link recorded
\* as a file entry has the link's own modification time and size.
C8_NoLinkFollowedBelowArgument ==
    /\ \A w \in walked : w.link => w.top
    /\ \A i \in 1..Len(filedb) :
          LET n == Lstat(filedb[i].key, Entries, {})
          IN Kind(n) = "link" =>
                 (filedb[i].mtime = meta[n].mtime /\ filedb[i].fsize = meta[n].size)

C8_Witness ==
    /\ Succeeded
    /\ <<"d", "/", "k">> \in Keys(filedb)
    /\ Get(filedb, <<"d", "/", "k">>).mtime # meta["A"].mtime
    /\ \E w \in walked : w.path = <<"d", "/", "s">>
    /\ \A w \in walked : w.path # <<"d", "/", "s", "/", "j">>

\* C9: for every accepted combination of --bysize and --bymtime (both
\* together are rejected) the sort key is size exactly when --bysize is
\* given and modification time otherwise, and keys_sorted_by never raises
\* ValueError.
C9_SortKeyValid ==
    /\ (pc # "start" /\ Both \subseteq argv.flags) => (pc = "exit" /\ exit_code = 2)
    /\ (pc \in {"print"} \/ Succeeded) => sort_key # ""
    /\ sort_key # "" => sort_key = (IF BySize THEN "fsize" ELSE "mtime")
    /\ raised # "ValueError"

C9_Witness == Succeeded /\ BySize /\ sort_key = "fsize" /\ out # <<>>

Reverse(q) == [i \in 1..Len(q) |-> q[Len(q) + 1 - i]]

\* C10: the order keys_sorted_by returns is determined by the contents of
\* the FileDB, not by the insertion order: it is strictly descending in
\* (key value, path), so records with equal key values are in descending
\* order of path.
C10_OrderDetermined ==
    (pc = "print" \/ Succeeded) =>
        LET order == Printed \o sorted
            T(i) == <<KeyOf(order[i]), order[i]>>
        IN /\ Range(order) = Keys(filedb)
           /\ \A i, j \in 1..Len(order) :
                 i < j => \/ T(j)[1] < T(i)[1]
                          \/ (T(j)[1] = T(i)[1] /\ StrLess(T(j)[2], T(i)[2]))
           /\ \A i \in 1..(Len(order) - 1) :
                 KeyOf(order[i]) = KeyOf(order[i + 1])
                     => StrLess(order[i + 1], order[i])
           /\ keys_sorted_by(sort_key, Reverse(filedb), TRUE).keys = order

C10_Witness ==
    /\ Succeeded /\ Len(out) >= 3
    /\ \E i \in 1..(Len(out) - 1) :
          /\ KeyOf(out[i].filename) = KeyOf(out[i + 1].filename)
          /\ \E a, b \in 1..Len(filedb) :
                a < b /\ filedb[a].key = out[i].filename
                      /\ filedb[b].key = out[i + 1].filename
    /\ \E i \in 1..(Len(out) - 1) :
          /\ KeyOf(out[i].filename) = KeyOf(out[i + 1].filename)
          /\ \E a, b \in 1..Len(filedb) :
                a > b /\ filedb[a].key = out[i].filename
                      /\ filedb[b].key = out[i + 1].filename

-----------------------------------------------------------------------------
(* Properties of human_readable_size.                                      *)

RECURSIVE LStrip(_)
LStrip(str) == IF str # <<>> /\ Head(str) = " " THEN LStrip(Tail(str)) ELSE str

\* the numeric field and the suffix of a rendered size
NumericField(str) == SubSeq(str, 1, Len(str) - 2)

SuffixField(str) == SubSeq(str, Len(str) - 1, Len(str))

\* the suffix is that of the 1000-based range the byte count lies in
SuffixRight ==
    SuffixField(rendered) =
        (IF numbytes.hi = 0 /\ numbytes.lo < 1000000 THEN <<"K", "B">>
         ELSE IF numbytes.hi < 100 THEN <<"M", "B">>
         ELSE <<"G", "B">>)

\* digits, a point and exactly two decimals, padded with spaces on the left
\* to 8 characters and no further
FieldWellFormed ==
    LET field == NumericField(rendered)
        digits == LStrip(field)
    IN /\ Len(field) >= 8
       /\ Len(field) > 8 => field[1] # " "
       /\ Len(digits) >= 4
       /\ digits[Len(digits) - 2] = "."
       /\ \A i \in 1..Len(digits) :
             i # Len(digits) - 2 => digits[i] \in Range(Digits)

\* the hundredths of a unit the field shows
Shown ==
    LET digits == LStrip(NumericField(rendered))
    IN 100 * ParseInt(SubSeq(digits, 1, Len(digits) - 3))
           + ParseInt(SubSeq(digits, Len(digits) - 1, Len(digits)))

Abs(v) == IF v < 0 THEN 0 - v ELSE v

\* the value shown, times the suffix multiplier, is within 0.005 unit of the
\* byte count
WithinTolerance ==
    IF SuffixField(rendered) = <<"G", "B">>
    THEN /\ Shown - numbytes.hi \in -2..2
         /\ 2 * Abs((Shown - numbytes.hi) * Limb - numbytes.lo) <= Limb
    ELSE LET gran == IF SuffixField(rendered) = <<"K", "B">> THEN 10 ELSE 10000
         IN 2 * Abs(Shown * gran - (numbytes.hi * Limb + numbytes.lo)) <= gran

\* C6 as stated: for every byte count n, human_readable_size(n) has the
\* suffix of n's 1000-based range, exactly 2 decimals and a numeric width of
\* at least 8, and the value shown is within 0.005 of a unit of n.
C6_WithinHalfCent ==
    rendered # <<>> => (SuffixRight /\ FieldWellFormed /\ WithinTolerance)

\* C6 amended: the suffix, the 2 decimals and the width are as stated for
\* every byte count; the value shown is within 0.005 of a unit of n for every
\* n below 2^53 (from 2^53 on, n is rounded to a float before the division).
C6_WithinHalfCentBelow2To53 ==
    rendered # <<>> =>
        /\ SuffixRight
        /\ FieldWellFormed
        /\ BigLess(numbytes, TwoTo53) => WithinTolerance

C6_Witness ==
    /\ numbytes = Big(2500000)
    /\ rendered = <<" ", " ", " ", " ", "2", ".", "5", "0", "M", "B">>

=============================================================================
